---- MODULE Spec2Model ----
(***************************************************************************)
(* Model of homeassistant/components/light/houm.py: the HoumController,    *)
(* its IntervalTimer poller, the socket receive thread and the HoumDevice  *)
(* records.                                                                *)
(*                                                                         *)
(* Threads: the thread that runs setup_platform and later the shutdown     *)
(* hook (MainThread), the IntervalTimer thread (PollerThread) and one      *)
(* receive thread per SocketIO object (thread n runs socket n's wait()).   *)
(* Every thread has a program counter pc[t]; a thread that ended with an   *)
(* uncaught exception has pc[t] = "raised" and exc[t] names the exception. *)
(*                                                                         *)
(* Time: the code reads the clock in two places only, the rate limit       *)
(* (last_command_sent + 1) > time.time() and time.sleep(interval).  The    *)
(* model keeps the two differences those tests depend on, each saturating: *)
(* since_last_command = time.time() - last_command_sent (up to RateLimit)  *)
(* and sleep_left = the part of the Poller's sleep still to run.           *)
(*                                                                         *)
(* out holds the calls the latest step made to the collaborators (logger,  *)
(* add_devices_callback, update_ha_state, socket.emit, requests.get);     *)
(* every step rewrites it.                                                 *)
(***************************************************************************)
EXTENDS Integers, Sequences, FiniteSets, TLC

\* ------------------------------------------------------------------ bounds
MaxSockets == 2

\* ------------------------------------------------------- program constants
PollInterval == 5
RateLimit == 1
FullBrightness == 255

\* Thread and object handles: socket n and its receive thread are n >= 1.
MainThread == 0
PollerThread == -1
None == -2

\* ------------------------------------------------------------- environment
\* The lights of the site as the service reports them: the id, type and
\* protocol of a light are fixed, its on/bri state varies between snapshots.
Ids == {"a", "b"}
SiteIds == {"a", "b", "c"}
SiteType(i) == CASE i = "a" -> "dimmable" [] i = "b" -> "binary" [] OTHER -> "sensor"
SiteProtocol(i) == IF i = "b" THEN "p2" ELSE "p1"
\* (on, bri) pairs the service sends: two consistent ones and one that is not.
LightStates == {<<FALSE, 0>>, <<TRUE, 120>>, <<TRUE, 0>>}
JsonLight(i, st) ==
    [_id |-> i, type |-> SiteType(i), protocol |-> SiteProtocol(i),
     on |-> st[1], bri |-> st[2]]
SiteLights(i) == IF i \in Ids THEN {JsonLight(i, st) : st \in LightStates}
                 ELSE {JsonLight(i, <<FALSE, 0>>)}
AllJsonLights == UNION {SiteLights(i) : i \in SiteIds}
\* A snapshot: the 'lights' array of GET /api/site/<key>, each light at most once.
Snapshots ==
    {<<>>}
    \cup {<<x>> : x \in AllJsonLights}
    \cup {p \in AllJsonLights \X AllJsonLights : p[1]._id # p[2]._id}
    \cup {<<JsonLight("c", <<FALSE, 0>>), x, y>> :
            x \in SiteLights("a"), y \in SiteLights("b")}
\* A setLightState payload: a mapping that may lack any of its keys.
PayloadKeys == {"_id", "on", "bri"}
Payload(i, st, K) ==
    [k \in K |-> CASE k = "_id" -> i [] k = "on" -> st[1] [] OTHER -> st[2]]
Payloads == {Payload(i, st, K) : i \in Ids, st \in LightStates, K \in SUBSET PayloadKeys}
WellFormed(p) == DOMAIN p = PayloadKeys

\* The inputs whose on says the same as their bri.
ConsistentSnapshots ==
    {sn \in Snapshots : \A k \in 1..Len(sn) : sn[k].on = (sn[k].bri > 0)}
ConsistentPayloads ==
    {p \in Payloads : WellFormed(p) /\ p["on"] = (p["bri"] > 0)}

Sockets == 1..MaxSockets
Threads == {PollerThread, MainThread} \cup Sockets

VARIABLES
    site_key,             \* config.get('site_key') is present
    config_device_data,   \* id -> its 'exclude' option (FALSE when absent)
    protocols,            \* the protocol allow-list of the configuration
    pc,                   \* thread -> where it is
    exc,                  \* thread -> the exception that ended it, or "none"
    device_id_map,        \* HoumController.device_id_map: id -> device record
    found_lights,         \* the list get_lights returned to the pass in progress
    since_last_command,   \* time.time() - last_command_sent, saturating
    sleep_left,           \* seconds the Poller's time.sleep has still to run
    reconnect_on_disconnect,
    stop_event,           \* IntervalTimer.stop_event is set
    socket,               \* self.socket: a socket number, or None
    socket_thread,        \* self.socket_thread: a thread, or None
    nsock,                \* SocketIO objects created so far
    socket_state,         \* socket -> "none", "open" or "closed"
    listening,            \* socket -> its setLightState handler is registered
    announced,            \* id -> batches given to add_devices_callback holding it
    out                   \* the collaborator calls of the latest step

vars == <<site_key, config_device_data, protocols, pc, exc, device_id_map,
          found_lights, since_last_command, sleep_left, reconnect_on_disconnect,
          stop_event, socket, socket_thread, nsock, socket_state, listening,
          announced, out>>

config == <<site_key, config_device_data, protocols>>

\* ----------------------------------------------------------------- helpers
NoOut == [log_errors |-> 0, log_exceptions |-> 0, ha_updates |-> <<>>,
          add_devices |-> <<>>, emits |-> <<>>, requests |-> 0]

Goto(t, where) == pc' = [pc EXCEPT ![t] = where]

\* An exception nothing catches ends the thread it is raised on.
Raise(t, e) ==
    /\ pc' = [pc EXCEPT ![t] = "raised"]
    /\ exc' = [exc EXCEPT ![t] = e]

\* Thread.isAlive(): started and not yet finished.
isAlive(t) == pc[t] \notin {"unborn", "created", "dead", "raised"}

\* HoumDevice.__init__
HoumDevice(json_state) ==
    [deviceId |-> json_state._id, type |-> json_state.type,
     protocol |-> json_state.protocol, on |-> json_state.on, bri |-> json_state.bri]

RECURSIVE BuildDevices(_)
\* get_lights: a HoumDimmer or HoumSwitch per light of a known type.
BuildDevices(lights) ==
    IF lights = <<>> THEN <<>>
    ELSE LET light == Head(lights)
             rest == BuildDevices(Tail(lights))
         IN IF light.type = "dimmable" \/ light.type = "binary"
            THEN <<HoumDevice(light)>> \o rest
            ELSE rest

RECURSIVE FilterDevices(_, _, _)
\* get_lights: the type and protocol allow-lists; an empty list accepts all.
FilterDevices(devices, type_filter, protocol_filter) ==
    IF devices = <<>> THEN <<>>
    ELSE LET light == Head(devices)
             rest == FilterDevices(Tail(devices), type_filter, protocol_filter)
         IN IF /\ (type_filter = {} \/ light.type \in type_filter)
               /\ (protocol_filter = {} \/ light.protocol \in protocol_filter)
            THEN <<light>> \o rest
            ELSE rest

get_lights(lights, type_filter, protocol_filter) ==
    LET devices == BuildDevices(lights)
    IN IF type_filter = {} /\ protocol_filter = {} THEN devices
       ELSE FilterDevices(devices, type_filter, protocol_filter)

\* The 'exclude' test of the reconciliation loop.
ExcludedIgnored(i) == FALSE
Excluded(i) == config_device_data[i]

PutDevice(map, i, d) == [k \in DOMAIN map \cup {i} |-> IF k = i THEN d ELSE map[k]]

RECURSIVE ReconcileKeepsKnown(_, _, _)
\* A loop that creates the new devices and leaves the known ones as they are.
ReconcileKeepsKnown(map, lights, new_lights) ==
    IF lights = <<>> THEN [map |-> map, new_lights |-> new_lights, err |-> "none"]
    ELSE LET light == Head(lights)
             i == light.deviceId
         IN IF i \notin DOMAIN map /\ ~Excluded(i)
            THEN ReconcileKeepsKnown(PutDevice(map, i, light), Tail(lights),
                                     Append(new_lights, i))
            ELSE IF i \notin DOMAIN map
                 THEN [map |-> map, new_lights |-> new_lights, err |-> "KeyError"]
                 ELSE ReconcileKeepsKnown(map, Tail(lights), new_lights)

RECURSIVE Reconcile(_, _, _)
\* The loop of discover_lights_and_sync_statuses over found_lights:
\* the resulting map, the new ids in order, and the exception that ended it.
Reconcile(map, lights, new_lights) ==
    IF lights = <<>> THEN [map |-> map, new_lights |-> new_lights, err |-> "none"]
    ELSE LET light == Head(lights)
             i == light.deviceId
         IN IF i \notin DOMAIN map /\ ~Excluded(i)
            THEN Reconcile(PutDevice(map, i, light), Tail(lights),
                           Append(new_lights, i))
            ELSE IF i \notin DOMAIN map
                 THEN [map |-> map, new_lights |-> new_lights, err |-> "KeyError"]
                 ELSE Reconcile(
                        [map EXCEPT ![i] = [@ EXCEPT !.on = light.on, !.bri = light.bri]],
                        Tail(lights), new_lights)

\* -------------------------------------------------------------------- Init
Init ==
    /\ site_key \in BOOLEAN
    /\ config_device_data \in [Ids -> BOOLEAN]
    /\ protocols \in {{}, {"p1"}}
    /\ pc = [t \in Threads |-> IF t = MainThread THEN "ctor" ELSE "unborn"]
    /\ exc = [t \in Threads |-> "none"]
    /\ device_id_map = <<>>
    /\ found_lights = <<>>
    /\ since_last_command = RateLimit
    /\ sleep_left = 0
    /\ reconnect_on_disconnect = FALSE
    /\ stop_event = FALSE
    /\ socket = None
    /\ socket_thread = None
    /\ nsock = 0
    /\ socket_state = [s \in Sockets |-> "none"]
    /\ listening = [s \in Sockets |-> FALSE]
    /\ announced = [i \in Ids |-> 0]
    /\ out = NoOut

\* ------------------------------------------------- HoumController.__init__
\* The constructor without the site_key guard of lines 59-65.
ConstructUnguarded ==
    /\ pc[MainThread] = "ctor"
    /\ Goto(MainThread, "discover")
    /\ out' = NoOut
    /\ UNCHANGED <<config, exc, device_id_map, found_lights, since_last_command,
                   sleep_left, reconnect_on_disconnect, stop_event, socket,
                   socket_thread, nsock, socket_state, listening, announced>>

\* The site_key guard and the set-up of the configuration and the registry.
Construct ==
    /\ pc[MainThread] = "ctor"
    /\ IF ~site_key
       THEN /\ Goto(MainThread, "inert")
            /\ out' = [NoOut EXCEPT !.log_errors = 1]
       ELSE /\ Goto(MainThread, "discover")
            /\ out' = NoOut
    /\ UNCHANGED <<config, exc, device_id_map, found_lights, since_last_command,
                   sleep_left, reconnect_on_disconnect, stop_event, socket,
                   socket_thread, nsock, socket_state, listening, announced>>

\* Where discover_lights_and_sync_statuses returns to.
AfterDiscover(t) == IF t = MainThread THEN "enable_reconnect" ELSE "sleep"

\* time.sleep(self._interval) begins when the Poller's worker returns.
StartSleep(t) == sleep_left' = IF t = PollerThread THEN PollInterval ELSE sleep_left

\* The rate limit: less than a second since get_lights last set the timestamp.
RateLimitedNever == FALSE
RateLimited == since_last_command < RateLimit

\* requests.get raises RequestException, but nothing catches it.
RequestFailedUncaught(t) ==
    /\ Raise(t, "RequestException")
    /\ out' = [NoOut EXCEPT !.requests = 1]
    /\ UNCHANGED <<found_lights, sleep_left>>

\* requests.get raises RequestException: logged, and the pass returns False.
RequestFailed(t) ==
    /\ Goto(t, AfterDiscover(t))
    /\ StartSleep(t)
    /\ out' = [NoOut EXCEPT !.log_exceptions = 1, !.requests = 1]
    /\ UNCHANGED <<exc, found_lights>>

\* discover_lights_and_sync_statuses up to the return of get_lights: the rate
\* limit, the timestamp, the request (which may fail) and the filters.
DiscoverFetch(t, snapshots) ==
    /\ pc[t] = "discover"
    /\ UNCHANGED <<config, device_id_map, reconnect_on_disconnect, stop_event,
                   socket, socket_thread, nsock, socket_state, listening, announced>>
    /\ IF RateLimited
       THEN /\ Goto(t, AfterDiscover(t))
            /\ StartSleep(t)
            /\ out' = NoOut
            /\ UNCHANGED <<exc, found_lights, since_last_command>>
       ELSE /\ since_last_command' = 0
            /\ \/ RequestFailed(t)
               \/ \E snapshot \in snapshots :
                  /\ found_lights' = get_lights(snapshot, {"binary", "dimmable"}, protocols)
                  /\ Goto(t, "reconcile")
                  /\ out' = [NoOut EXCEPT !.requests = 1]
                  /\ UNCHANGED <<exc, sleep_left>>

\* The reconciliation loop and the announcement of the new lights.
DiscoverReconcile(t) ==
    /\ pc[t] = "reconcile"
    /\ LET r == Reconcile(device_id_map, found_lights, <<>>)
       IN /\ device_id_map' = r.map
          /\ found_lights' = <<>>
          /\ IF r.err # "none"
             THEN /\ Raise(t, r.err)
                  /\ out' = NoOut
                  /\ UNCHANGED <<announced, sleep_left>>
             ELSE /\ Goto(t, AfterDiscover(t))
                  /\ StartSleep(t)
                  /\ UNCHANGED exc
                  /\ IF r.new_lights # <<>>
                     THEN /\ out' = [NoOut EXCEPT !.add_devices = <<r.new_lights>>]
                          /\ announced' =
                               [i \in Ids |->
                                  IF \E k \in 1..Len(r.new_lights) : r.new_lights[k] = i
                                  THEN announced[i] + 1 ELSE announced[i]]
                     ELSE /\ out' = NoOut
                          /\ UNCHANGED announced
    /\ UNCHANGED <<config, since_last_command, reconnect_on_disconnect, stop_event,
                   socket, socket_thread, nsock, socket_state, listening>>

\* self.reconnect_on_disconnect = True, before the first open_socket.
EnableReconnect ==
    /\ pc[MainThread] = "enable_reconnect"
    /\ reconnect_on_disconnect' = TRUE
    /\ Goto(MainThread, "open_socket")
    /\ out' = NoOut
    /\ UNCHANGED <<config, exc, device_id_map, found_lights, since_last_command,
                   sleep_left, stop_event, socket, socket_thread, nsock,
                   socket_state, listening, announced>>

\* Where open_socket returns to: the constructor, or the wait loop that ran reconnect.
AfterOpenSocket(t) == IF t = MainThread THEN "create_timer" ELSE "wait"

\* open_socket: a new SocketIO, its handlers, and a started thread running its wait().
open_socket(t) ==
    /\ pc[t] = "open_socket"
    /\ nsock < MaxSockets
    /\ LET n == nsock + 1
       IN /\ nsock' = n
          /\ socket' = n
          /\ socket_thread' = n
          /\ socket_state' = [socket_state EXCEPT ![n] = "open"]
          /\ pc' = [pc EXCEPT ![t] = AfterOpenSocket(t), ![n] = "wait"]
    /\ out' = NoOut
    /\ UNCHANGED <<config, exc, device_id_map, found_lights, since_last_command,
                   sleep_left, reconnect_on_disconnect, stop_event, listening,
                   announced>>

\* self.discover_and_sync_timer = IntervalTimer(5, ...)
CreateTimer ==
    /\ pc[MainThread] = "create_timer"
    /\ pc[PollerThread] = "unborn"
    /\ pc' = [pc EXCEPT ![MainThread] = "start_timer", ![PollerThread] = "created"]
    /\ out' = NoOut
    /\ UNCHANGED <<config, exc, device_id_map, found_lights, since_last_command,
                   sleep_left, reconnect_on_disconnect, stop_event, socket,
                   socket_thread, nsock, socket_state, listening, announced>>

\* self.discover_and_sync_timer.start(); the constructor returns and
\* setup_platform registers close_socket for EVENT_HOMEASSISTANT_STOP.
StartTimer ==
    /\ pc[MainThread] = "start_timer"
    /\ pc[PollerThread] = "created"
    /\ pc' = [pc EXCEPT ![MainThread] = "ready", ![PollerThread] = "run"]
    /\ out' = NoOut
    /\ UNCHANGED <<config, exc, device_id_map, found_lights, since_last_command,
                   sleep_left, reconnect_on_disconnect, stop_event, socket,
                   socket_thread, nsock, socket_state, listening, announced>>

\* IntervalTimer.run: the loop test and the call of the worker.
IntervalTimerRun ==
    /\ pc[PollerThread] = "run"
    /\ Goto(PollerThread, IF stop_event THEN "dead" ELSE "discover")
    /\ out' = NoOut
    /\ UNCHANGED <<config, exc, device_id_map, found_lights, since_last_command,
                   sleep_left, reconnect_on_disconnect, stop_event, socket,
                   socket_thread, nsock, socket_state, listening, announced>>

\* IntervalTimer.run: time.sleep(self._interval) returns.
IntervalTimerWake ==
    /\ pc[PollerThread] = "sleep"
    /\ sleep_left = 0
    /\ Goto(PollerThread, "run")
    /\ out' = NoOut
    /\ UNCHANGED <<config, exc, device_id_map, found_lights, since_last_command,
                   sleep_left, reconnect_on_disconnect, stop_event, socket,
                   socket_thread, nsock, socket_state, listening, announced>>

\* A second passes.
Tick ==
    /\ since_last_command < RateLimit \/ sleep_left > 0
    /\ since_last_command' =
         IF since_last_command < RateLimit THEN since_last_command + 1
         ELSE since_last_command
    /\ sleep_left' = IF sleep_left > 0 THEN sleep_left - 1 ELSE sleep_left
    /\ out' = NoOut
    /\ UNCHANGED <<config, pc, exc, device_id_map, found_lights,
                   reconnect_on_disconnect, stop_event, socket, socket_thread,
                   nsock, socket_state, listening, announced>>

\* EVENT_HOMEASSISTANT_STOP: the hook setup_platform registered calls close_socket.
Shutdown ==
    /\ pc[MainThread] \in {"ready", "inert"}
    /\ Goto(MainThread, "close_socket")
    /\ out' = NoOut
    /\ UNCHANGED <<config, exc, device_id_map, found_lights, since_last_command,
                   sleep_left, reconnect_on_disconnect, stop_event, socket,
                   socket_thread, nsock, socket_state, listening, announced>>

\* reconnect, the handler of 'disconnect', 'close' and 'error', on the thread
\* that runs the socket's wait(): the test of the flag and the call of close_socket.
reconnect(s) ==
    /\ pc[s] = "wait"
    /\ Goto(s, IF reconnect_on_disconnect THEN "close_socket" ELSE "wait")
    /\ out' = NoOut
    /\ UNCHANGED <<config, exc, device_id_map, found_lights, since_last_command,
                   sleep_left, reconnect_on_disconnect, stop_event, socket,
                   socket_thread, nsock, socket_state, listening, announced>>

\* close_socket: self.reconnect_on_disconnect = False
CloseSocketFlag(t) ==
    /\ pc[t] = "close_socket"
    /\ reconnect_on_disconnect' = FALSE
    /\ Goto(t, "stop_timer")
    /\ out' = NoOut
    /\ UNCHANGED <<config, exc, device_id_map, found_lights, since_last_command,
                   sleep_left, stop_event, socket, socket_thread, nsock,
                   socket_state, listening, announced>>

\* close_socket: self.discover_and_sync_timer.stop() up to its join: the
\* attribute exists only once the constructor has created the timer.
CloseSocketStop(t) ==
    /\ pc[t] = "stop_timer"
    /\ IF pc[PollerThread] = "unborn"
       THEN /\ Raise(t, "AttributeError")
            /\ UNCHANGED stop_event
       ELSE IF isAlive(PollerThread)
            THEN /\ stop_event' = TRUE
                 /\ Goto(t, "join_timer")
                 /\ UNCHANGED exc
            ELSE /\ Goto(t, "disconnect")
                 /\ UNCHANGED <<exc, stop_event>>
    /\ out' = NoOut
    /\ UNCHANGED <<config, device_id_map, found_lights, since_last_command,
                   sleep_left, reconnect_on_disconnect, socket, socket_thread,
                   nsock, socket_state, listening, announced>>

\* Thread.join returns once the thread joined has ended.
ThreadJoinedNoWait(target) == TRUE
ThreadJoined(target) == ~isAlive(target)

\* StoppableThread.stop: self.join() returns once the Poller thread has ended.
CloseSocketJoinTimer(t) ==
    /\ pc[t] = "join_timer"
    /\ ThreadJoined(PollerThread)
    /\ Goto(t, "disconnect")
    /\ out' = NoOut
    /\ UNCHANGED <<config, exc, device_id_map, found_lights, since_last_command,
                   sleep_left, reconnect_on_disconnect, stop_event, socket,
                   socket_thread, nsock, socket_state, listening, announced>>

\* close_socket: self.socket.disconnect()
CloseSocketDisconnect(t) ==
    /\ pc[t] = "disconnect"
    /\ IF socket = None
       THEN /\ Raise(t, "AttributeError")
            /\ UNCHANGED socket_state
       ELSE /\ socket_state' = [socket_state EXCEPT ![socket] = "closed"]
            /\ Goto(t, "join_socket")
            /\ UNCHANGED exc
    /\ out' = NoOut
    /\ UNCHANGED <<config, device_id_map, found_lights, since_last_command,
                   sleep_left, reconnect_on_disconnect, stop_event, socket,
                   socket_thread, nsock, listening, announced>>

\* Where close_socket returns to: the shutdown hook's caller, or reconnect.
AfterCloseSocket(t) == IF t = MainThread THEN "closed" ELSE "open_socket"

\* Thread.join on the calling thread itself raises RuntimeError.
JoinRaises(t, target) == target = t

\* close_socket without its last statement: returns right after the disconnect.
CloseSocketJoinSkipped(t) ==
    /\ pc[t] = "join_socket"
    /\ Goto(t, AfterCloseSocket(t))
    /\ out' = NoOut
    /\ UNCHANGED <<config, exc, device_id_map, found_lights, since_last_command,
                   sleep_left, reconnect_on_disconnect, stop_event, socket,
                   socket_thread, nsock, socket_state, listening, announced>>

\* close_socket: self.socket_thread.join()
CloseSocketJoin(t) ==
    /\ pc[t] = "join_socket"
    /\ IF socket_thread = None
       THEN Raise(t, "AttributeError")
       ELSE IF JoinRaises(t, socket_thread)
            THEN Raise(t, "RuntimeError")
            ELSE /\ ThreadJoined(socket_thread)
                 /\ Goto(t, AfterCloseSocket(t))
                 /\ UNCHANGED exc
    /\ out' = NoOut
    /\ UNCHANGED <<config, device_id_map, found_lights, since_last_command,
                   sleep_left, reconnect_on_disconnect, stop_event, socket,
                   socket_thread, nsock, socket_state, listening, announced>>

\* socket.wait() returns once the socket has been disconnected.
WaitReturns(s) ==
    /\ pc[s] = "wait"
    /\ socket_state[s] = "closed"
    /\ Goto(s, "dead")
    /\ out' = NoOut
    /\ UNCHANGED <<config, exc, device_id_map, found_lights, since_last_command,
                   sleep_left, reconnect_on_disconnect, stop_event, socket,
                   socket_thread, nsock, socket_state, listening, announced>>

\* on_connect, the handler of 'connect': emit clientReady and register
\* update_light for 'setLightState'.
on_connect(s) ==
    /\ pc[s] = "wait"
    /\ socket_state[s] = "open"
    /\ ~listening[s]
    /\ listening' = [listening EXCEPT ![s] = TRUE]
    /\ out' = [NoOut EXCEPT !.emits = <<[event |-> "clientReady"]>>]
    /\ UNCHANGED <<config, pc, exc, device_id_map, found_lights, since_last_command,
                   sleep_left, reconnect_on_disconnect, stop_event, socket,
                   socket_thread, nsock, socket_state, announced>>

\* update_light that never assigns the payload's 'on' to the device.
UpdateLightResultForgetsOn(map, p) ==
    LET unchanged(e, logs) == [map |-> map, ha_updates |-> <<>>, log_errors |-> logs, err |-> e]
    IN IF "_id" \notin DOMAIN p THEN unchanged("KeyError", 0)
       ELSE IF "bri" \notin DOMAIN p THEN unchanged("KeyError", 0)
       ELSE IF p["_id"] \notin DOMAIN map THEN unchanged("none", 2)
       ELSE IF "on" \notin DOMAIN p
            THEN [map |-> [map EXCEPT ![p["_id"]] = [@ EXCEPT !.bri = p["bri"]]],
                  ha_updates |-> <<>>, log_errors |-> 0, err |-> "KeyError"]
            ELSE [map |-> [map EXCEPT ![p["_id"]] = [@ EXCEPT !.bri = p["bri"]]],
                  ha_updates |-> <<p["_id"]>>, log_errors |-> 0, err |-> "none"]

\* update_light that looks the device up with device_id_map[...]: for an
\* unknown id the KeyError is not the AttributeError the handler catches.
UpdateLightResultSubscript(map, p) ==
    LET unchanged(e, logs) == [map |-> map, ha_updates |-> <<>>, log_errors |-> logs, err |-> e]
    IN IF "_id" \notin DOMAIN p THEN unchanged("KeyError", 0)
       ELSE IF p["_id"] \notin DOMAIN map THEN unchanged("KeyError", 0)
       ELSE IF "bri" \notin DOMAIN p THEN unchanged("KeyError", 0)
       ELSE IF "on" \notin DOMAIN p
            THEN [map |-> [map EXCEPT ![p["_id"]] = [@ EXCEPT !.bri = p["bri"]]],
                  ha_updates |-> <<>>, log_errors |-> 0, err |-> "KeyError"]
            ELSE [map |-> [map EXCEPT ![p["_id"]] =
                                [@ EXCEPT !.bri = p["bri"], !.on = p["on"]]],
                  ha_updates |-> <<p["_id"]>>, log_errors |-> 0, err |-> "none"]

\* The body of update_light for one payload: the map it leaves, the
\* update_ha_state calls and _LOGGER.error calls it makes, and the exception
\* that leaves it ("none" when it returns).  An assignment evaluates its right
\* side, updated_data[key], before it touches the device.
UpdateLightResult(map, p) ==
    LET unchanged(e, logs) == [map |-> map, ha_updates |-> <<>>, log_errors |-> logs, err |-> e]
    IN IF "_id" \notin DOMAIN p THEN unchanged("KeyError", 0)
       ELSE IF "bri" \notin DOMAIN p THEN unchanged("KeyError", 0)
       ELSE IF p["_id"] \notin DOMAIN map THEN unchanged("none", 2)
       ELSE LET i == p["_id"]
                with_bri == [map EXCEPT ![i] = [@ EXCEPT !.bri = p["bri"]]]
            IN IF "on" \notin DOMAIN p
               THEN [map |-> with_bri, ha_updates |-> <<>>, log_errors |-> 0,
                     err |-> "KeyError"]
               ELSE [map |-> [with_bri EXCEPT ![i] = [@ EXCEPT !.on = p["on"]]],
                     ha_updates |-> <<i>>, log_errors |-> 0, err |-> "none"]

\* update_light, the handler of 'setLightState', on the thread that runs wait().
update_light(s, p) ==
    /\ pc[s] = "wait"
    /\ socket_state[s] = "open"
    /\ listening[s]
    /\ LET r == UpdateLightResult(device_id_map, p)
       IN /\ device_id_map' = r.map
          /\ out' = [NoOut EXCEPT !.ha_updates = r.ha_updates,
                                  !.log_errors = r.log_errors]
          /\ IF r.err = "none" THEN UNCHANGED <<pc, exc>> ELSE Raise(s, r.err)
    /\ UNCHANGED <<config, found_lights, since_last_command, sleep_left,
                   reconnect_on_disconnect, stop_event, socket, socket_thread,
                   nsock, socket_state, listening, announced>>

\* HoumDevice.set_value: the change to the device itself.
DeviceSetValue(dev, name, value) ==
    IF name = "bri" THEN [dev EXCEPT !.bri = value, !.on = (value > 0)]
    ELSE IF name = "on" THEN [dev EXCEPT !.on = value]
    ELSE dev

\* An 'apply/light' event whose on is not derived from a brightness.
ControllerSetValueRaw(name, device_id, value) ==
    [event |-> "apply/light", _id |-> device_id,
     on |-> IF name = "on" THEN value ELSE TRUE,
     bri |-> IF name = "bri" THEN value ELSE IF value THEN FullBrightness ELSE 0]

\* HoumController.set_value: the 'apply/light' event it emits.
ControllerSetValue(name, device_id, value) ==
    [event |-> "apply/light", _id |-> device_id,
     on |-> IF name = "on" THEN value ELSE value > 0,
     bri |-> IF name = "bri" THEN value ELSE IF value THEN FullBrightness ELSE 0]

\* HoumDevice.set_value on a device HomeAssistant was given: the local change,
\* then HoumController.set_value.
set_value(i, name, value) ==
    /\ pc[MainThread] = "ready"
    /\ announced[i] > 0
    /\ i \in DOMAIN device_id_map
    /\ device_id_map' = [device_id_map EXCEPT ![i] = DeviceSetValue(@, name, value)]
    /\ out' = [NoOut EXCEPT !.emits = <<ControllerSetValue(name, i, value)>>]
    /\ UNCHANGED <<config, pc, exc, found_lights, since_last_command, sleep_left,
                   reconnect_on_disconnect, stop_event, socket, socket_thread,
                   nsock, socket_state, listening, announced>>

\* ATTR_BRIGHTNESS values HomeAssistant passes to turn_on.
Brightnesses == {0, 120}

\* HoumSwitch.turn_on()
SwitchTurnOn(i) ==
    /\ i \in DOMAIN device_id_map
    /\ device_id_map[i].type = "binary"
    /\ set_value(i, "on", TRUE)

\* HoumSwitch.turn_off(), which HoumDimmer inherits
turn_off(i) == set_value(i, "on", FALSE)

\* HoumDimmer.turn_on(**kwargs), without and with ATTR_BRIGHTNESS
DimmerTurnOn(i) ==
    /\ i \in DOMAIN device_id_map
    /\ device_id_map[i].type = "dimmable"
    /\ \/ set_value(i, "bri", FullBrightness)
       \/ \E new_brightness \in Brightnesses : set_value(i, "bri", new_brightness)

\* Every operation but the two that take the service's data.
Internal ==
    \/ Construct
    \/ \E t \in {MainThread, PollerThread} : DiscoverReconcile(t)
    \/ EnableReconnect
    \/ \E t \in {MainThread} \cup Sockets : open_socket(t)
    \/ CreateTimer
    \/ StartTimer
    \/ IntervalTimerRun
    \/ IntervalTimerWake
    \/ Tick
    \/ Shutdown
    \/ \E s \in Sockets : reconnect(s)
    \/ \E t \in {MainThread} \cup Sockets : CloseSocketFlag(t)
    \/ \E t \in {MainThread} \cup Sockets : CloseSocketStop(t)
    \/ \E t \in {MainThread} \cup Sockets : CloseSocketJoinTimer(t)
    \/ \E t \in {MainThread} \cup Sockets : CloseSocketDisconnect(t)
    \/ \E t \in {MainThread} \cup Sockets : CloseSocketJoin(t)
    \/ \E s \in Sockets : WaitReturns(s)
    \/ \E s \in Sockets : on_connect(s)
    \/ \E i \in Ids : SwitchTurnOn(i)
    \/ \E i \in Ids : DimmerTurnOn(i)
    \/ \E i \in Ids : turn_off(i)

Next ==
    \/ Internal
    \/ \E t \in {MainThread, PollerThread} : DiscoverFetch(t, Snapshots)
    \/ \E s \in Sockets, p \in Payloads : update_light(s, p)

Spec == Init /\ [][Next]_vars

\* The program with a service whose snapshots and pushes are all consistent.
NextConsistent ==
    \/ Internal
    \/ \E t \in {MainThread, PollerThread} : DiscoverFetch(t, ConsistentSnapshots)
    \/ \E s \in Sockets, p \in ConsistentPayloads : update_light(s, p)

SpecConsistent == Init /\ [][NextConsistent]_vars

\* The steps of the timer's background thread: the loop test, the callback
\* and the wake-up from its sleep.
PollerStep ==
    \/ IntervalTimerRun
    \/ IntervalTimerWake
    \/ DiscoverFetch(PollerThread, ConsistentSnapshots)
    \/ DiscoverReconcile(PollerThread)

\* The program, with the consistent service, on a scheduler that lets the
\* timer's thread and a thread waiting in the timer's join run whenever they
\* can, and with time passing.
SpecFair ==
    /\ SpecConsistent
    /\ WF_vars(Tick)
    /\ WF_vars(PollerStep)
    /\ \A t \in {MainThread} \cup Sockets : WF_vars(CloseSocketJoinTimer(t))

\* ------------------------------------------------------------------ claims
\* A thread is inside reconnect from the call of close_socket to the return
\* of open_socket.
InReconnect(s) ==
    pc[s] \in {"close_socket", "stop_timer", "join_timer", "disconnect",
               "join_socket", "open_socket"}

\* C1: a reconnect that found reconnection enabled closes the connection and
\* opens a new one: the receive thread leaves reconnect only by the return of
\* open_socket, which has created one more connection.
C1_ReconnectOpensNewConnection ==
    [][\A s \in Sockets :
         (InReconnect(s) /\ pc'[s] \notin {"close_socket", "stop_timer", "join_timer",
                                          "disconnect", "join_socket", "open_socket"})
         => nsock' = nsock + 1]_vars

\* C2: once the shutdown call of close_socket has returned, the Poller thread
\* and every receive thread have ended and no connection is opened any more,
\* whatever a reconnect on the receive thread was doing meanwhile; and a
\* 'disconnect' delivered on a socket that close_socket has disconnected
\* does not start a reconnect.
C2_ShutdownStopsEverything ==
    /\ [](pc[MainThread] = "closed" =>
            /\ ~isAlive(PollerThread)
            /\ \A s \in Sockets : ~isAlive(s))
    /\ [][pc[MainThread] = "closed" => nsock' = nsock]_vars
    /\ [][\A s \in Sockets :
            (socket_state[s] = "closed" /\ pc[s] = "wait")
            => pc'[s] \in {"wait", "dead"}]_vars

\* The shutdown returned after a reconnect on the receive thread had begun.
C2_Witness ==
    /\ pc[MainThread] = "closed"
    /\ \E s \in Sockets : exc[s] = "RuntimeError"

\* C3: an id configured with exclude = true is never in device_id_map and
\* never in a batch given to add_devices_callback.
C3_ExcludedNeverCreated ==
    \A i \in Ids :
        config_device_data[i] => (i \notin DOMAIN device_id_map /\ announced[i] = 0)

\* A pass met an excluded id while the other id is known.
C3_Witness ==
    /\ \E i \in Ids : config_device_data[i]
    /\ exc[PollerThread] = "KeyError"
    /\ DOMAIN device_id_map # {}

\* C4: every id in the registry has been announced in exactly one batch, and
\* no other id has been announced.
C4_CreatedOnceAnnouncedOnce ==
    \A i \in Ids :
        announced[i] = IF i \in DOMAIN device_id_map THEN 1 ELSE 0

\* C5: a snapshot entry with an excluded id is dropped: no discovery pass,
\* in the constructor or on the Poller thread, ends with a KeyError.
C5_ExcludedEntryDropped ==
    \A t \in {MainThread, PollerThread} : exc[t] # "KeyError"

\* C6: set_value('on', true) leaves bri = 255 and on; set_value('on', false)
\* leaves bri = 0 and off; set_value('bri', 0) leaves off; set_value('bri', b)
\* with b > 0 leaves on and bri = b.
C6_SetValueNormalizes ==
    [][\A i \in Ids :
         /\ set_value(i, "on", TRUE) =>
              (device_id_map'[i].bri = FullBrightness /\ device_id_map'[i].on)
         /\ set_value(i, "on", FALSE) =>
              (device_id_map'[i].bri = 0 /\ ~device_id_map'[i].on)
         /\ set_value(i, "bri", 0) => ~device_id_map'[i].on
         /\ \A b \in (Brightnesses \cup {FullBrightness}) \ {0} :
              set_value(i, "bri", b) =>
                (device_id_map'[i].on /\ device_id_map'[i].bri = b)]_vars

\* C7: with consistent snapshots and pushes, every record of the registry
\* has on = (bri > 0).
C7_RegistryConsistent ==
    \A i \in DOMAIN device_id_map :
        device_id_map[i].on = (device_id_map[i].bri > 0)

\* C8: a well-formed push for a known id sets that record's bri and on to the
\* payload's, changes no other record, and calls update_ha_state for that
\* record once.
C8_PushUpdatesKnownDevice ==
    [][\A s \in Sockets, p \in Payloads :
         (WellFormed(p) /\ p["_id"] \in DOMAIN device_id_map /\ update_light(s, p))
         => /\ DOMAIN device_id_map' = DOMAIN device_id_map
            /\ device_id_map'[p["_id"]].bri = p["bri"]
            /\ device_id_map'[p["_id"]].on = p["on"]
            /\ device_id_map'[p["_id"]].deviceId = p["_id"]
            /\ \A j \in DOMAIN device_id_map \ {p["_id"]} :
                 device_id_map'[j] = device_id_map[j]
            /\ out'.ha_updates = <<p["_id"]>>
            /\ pc'[s] = "wait"]_vars

\* A push has just switched a known device on at brightness 120.
C8_Witness ==
    \E i \in DOMAIN device_id_map :
        /\ out.ha_updates = <<i>>
        /\ device_id_map[i].on
        /\ device_id_map[i].bri = 120

\* C9: a payload that lacks a key is dropped: the handler returns (no
\* exception leaves it), logs an error, changes no record and calls no
\* update_ha_state.
C9_MalformedPayloadDropped ==
    [][\A s \in Sockets, p \in Payloads :
         (~WellFormed(p) /\ update_light(s, p))
         => /\ pc'[s] = "wait"
            /\ exc' = exc
            /\ device_id_map' = device_id_map
            /\ out'.ha_updates = <<>>
            /\ out'.log_errors >= 1]_vars

\* C10 as stated: a well-formed push for an unknown id creates no record,
\* leaves the registry as it is, lets no exception out, calls no
\* update_ha_state, and logs one error.
C10_UnknownIdOneError ==
    [][\A s \in Sockets, p \in Payloads :
         (WellFormed(p) /\ p["_id"] \notin DOMAIN device_id_map /\ update_light(s, p))
         => /\ device_id_map' = device_id_map
            /\ pc'[s] = "wait"
            /\ exc' = exc
            /\ out'.ha_updates = <<>>
            /\ out'.log_errors = 1]_vars

\* C10 as amended: the same, with the error logged by two _LOGGER.error
\* calls, the fixed message and the exception's arguments.
C10_UnknownIdLogged ==
    [][\A s \in Sockets, p \in Payloads :
         (WellFormed(p) /\ p["_id"] \notin DOMAIN device_id_map /\ update_light(s, p))
         => /\ device_id_map' = device_id_map
            /\ pc'[s] = "wait"
            /\ exc' = exc
            /\ out'.ha_updates = <<>>
            /\ out'.log_errors = 2]_vars

\* A push for an unknown id has just been handled, with one id known.
C10_Witness ==
    /\ out.log_errors = 2
    /\ Cardinality(DOMAIN device_id_map) = 1
    /\ \E s \in Sockets : pc[s] = "wait" /\ listening[s]

\* C11: a pass whose snapshot request fails is contained: the failing step
\* (a call past the rate limit that yields no snapshot) returns to its caller
\* without an exception, leaves the registry and the announcements as they
\* were and announces nothing, and on the Poller it begins the next interval's
\* sleep with the Poller still running; no thread ever ends by the request's
\* exception.
C11_NetworkFailureContained ==
    /\ [](\A t \in Threads : exc[t] # "RequestException")
    /\ [][\A t \in {MainThread, PollerThread} :
            (/\ pc[t] = "discover" /\ since_last_command >= RateLimit
             /\ pc'[t] \notin {"discover", "reconcile"})
            => /\ pc'[t] = AfterDiscover(t)
               /\ exc' = exc
               /\ device_id_map' = device_id_map
               /\ announced' = announced
               /\ found_lights' = found_lights
               /\ out'.add_devices = <<>>
               /\ out'.ha_updates = <<>>
               /\ out'.log_exceptions = 1
               /\ (t = PollerThread => sleep_left' = PollInterval /\ isAlive(t)')]_vars

\* A request of the Poller has just failed while the registry holds devices.
C11_Witness ==
    /\ out.log_exceptions = 1
    /\ out.requests = 1
    /\ pc[PollerThread] = "sleep"
    /\ sleep_left = PollInterval
    /\ DOMAIN device_id_map # {}

\* C12: a call made less than a second after the last request was begun issues
\* no request and changes neither the registry, nor the found lights, nor the
\* timestamp; a call past the limit issues exactly one request and sets the
\* timestamp at its start, whether the request then succeeds or fails.
C12_RateLimit ==
    [][\A t \in {MainThread, PollerThread} :
        (pc[t] = "discover" /\ pc'[t] # "discover")
        => IF since_last_command < RateLimit
           THEN /\ out'.requests = 0
                /\ pc'[t] = AfterDiscover(t)
                /\ since_last_command' = since_last_command
                /\ device_id_map' = device_id_map
                /\ found_lights' = found_lights
                /\ announced' = announced
                /\ out' = NoOut
           ELSE /\ out'.requests = 1
                /\ since_last_command' = 0]_vars

\* The Poller's pass has just returned at the rate limit: the constructor's
\* request was begun less than a second ago and no request was made.
C12_Witness ==
    /\ pc[PollerThread] = "sleep"
    /\ sleep_left = PollInterval
    /\ since_last_command < RateLimit
    /\ pc[MainThread] = "ready"
    /\ out = NoOut
    /\ DOMAIN device_id_map = {}

\* C13: from the moment the constructor has started the Poller until the
\* shutdown hook calls close_socket, the Poller is running and has not been
\* told to stop, whatever connection-loss events have been handled meanwhile
\* (stated for configurations that exclude no device, so that the Poller's
\* callback cannot fail).
C13_PollerRunsUntilShutdown ==
    (pc[MainThread] = "ready" /\ \A i \in Ids : ~config_device_data[i])
    => (isAlive(PollerThread) /\ ~stop_event)

\* C14: at most one connection is open and at most one receive thread is
\* alive in every state, and a step that opens a connection finds every
\* earlier connection disconnected and every earlier receive thread finished.
C14_SingleConnection ==
    /\ [](/\ Cardinality({s \in Sockets : socket_state[s] = "open"}) <= 1
          /\ Cardinality({s \in Sockets : isAlive(s)}) <= 1)
    /\ [][nsock' # nsock
          => \A s \in 1..nsock : socket_state[s] # "open" /\ ~isAlive(s)]_vars

\* A connection loss has been handled: the one connection opened so far is
\* disconnected, its receive thread has left reconnect, none has replaced it.
C14_Witness ==
    /\ nsock = 1
    /\ socket_state[1] = "closed"
    /\ exc[1] = "RuntimeError"
    /\ pc[MainThread] = "ready"

\* C15: stop() of a running timer joins: the step in which a caller leaves the
\* join finds the timer's thread finished, a finished thread never runs the
\* callback again, a callback in flight when the stop event is set runs to its
\* end rather than being cut off, and every caller waiting in the join
\* eventually leaves it.
C15_StopJoins ==
    /\ [][\A t \in {MainThread} \cup Sockets :
            (pc[t] = "join_timer" /\ pc'[t] # "join_timer")
            => (~isAlive(PollerThread) /\ ~isAlive(PollerThread)')]_vars
    /\ [][pc[PollerThread] \in {"dead", "raised"}
          => pc'[PollerThread] = pc[PollerThread]]_vars
    /\ [][(stop_event /\ pc[PollerThread] \in {"discover", "reconcile"})
          => pc'[PollerThread] \in {"discover", "reconcile", "sleep", "raised"}]_vars
    /\ \A t \in {MainThread} \cup Sockets :
          (pc[t] = "join_timer") ~> (pc[t] # "join_timer")

\* The shutdown's stop() has returned from its join of a timer that was
\* running: the stop event is set and the timer's thread has left its loop.
C15_Witness ==
    /\ pc[MainThread] = "disconnect"
    /\ stop_event
    /\ pc[PollerThread] = "dead"
    /\ DOMAIN device_id_map # {}

\* C16: without a site_key the constructor's step logs one error and returns
\* without an exception, and the controller stays inert for good: it makes no
\* request (the timestamp is never set), opens no connection, creates no
\* Poller, builds no device and announces nothing.
C16_MissingSiteKeyInert ==
    /\ [](~site_key
          => /\ nsock = 0
             /\ socket = None
             /\ socket_thread = None
             /\ pc[PollerThread] = "unborn"
             /\ since_last_command = RateLimit
             /\ out.requests = 0
             /\ DOMAIN device_id_map = {}
             /\ \A i \in Ids : announced[i] = 0
             /\ out.add_devices = <<>>
             /\ out.emits = <<>>)
    /\ [][(~site_key /\ pc[MainThread] = "ctor" /\ pc'[MainThread] # "ctor")
          => /\ pc'[MainThread] = "inert"
             /\ exc' = exc
             /\ out'.log_errors = 1]_vars

\* The constructor has just returned from its site_key guard.
C16_Witness ==
    /\ ~site_key
    /\ pc[MainThread] = "inert"
    /\ out.log_errors = 1

\* A local command on device i: set_value, or turn_on / turn_off.
Command(i) ==
    \/ \E value \in BOOLEAN : set_value(i, "on", value)
    \/ \E value \in Brightnesses \cup {FullBrightness} : set_value(i, "bri", value)

\* C17: every local command changes the record, emits through the controller
\* with the record's id, and then calls update_ha_state for that record
\* exactly once.
C17_CommandNotifies ==
    [][\A i \in Ids :
         Command(i) => /\ Len(out'.emits) = 1
                       /\ out'.emits[1]._id = i
                       /\ out'.ha_updates = <<i>>]_vars

\* C18: a command emits exactly one 'apply/light' event, with the device id
\* and the pair on = (bri > 0): for 'on' the pair (value, 255 if value else 0),
\* for 'bri' the pair (value > 0, value); the controller writes nothing back
\* to the registry: no other record changes, and after an 'on' command the
\* record's own bri is what it was.
C18_EmitNormalized ==
    /\ [](\A k \in 1..Len(out.emits) :
            out.emits[k].event = "apply/light"
            => out.emits[k].on = (out.emits[k].bri > 0))
    /\ [][\A i \in Ids :
            /\ \A value \in BOOLEAN :
                 set_value(i, "on", value)
                 => /\ out'.emits =
                         <<[event |-> "apply/light", _id |-> i, on |-> value,
                            bri |-> IF value THEN FullBrightness ELSE 0]>>
                    /\ device_id_map'[i].bri = device_id_map[i].bri
            /\ \A value \in Brightnesses \cup {FullBrightness} :
                 set_value(i, "bri", value)
                 => out'.emits =
                      <<[event |-> "apply/light", _id |-> i, on |-> (value > 0),
                         bri |-> value]>>
            /\ Command(i) => \A j \in DOMAIN device_id_map \ {i} :
                               device_id_map'[j] = device_id_map[j]]_vars

\* The dimmer has just been set to a brightness, and to zero brightness.
C18_Witness ==
    /\ Len(out.emits) = 1
    /\ out.emits[1].event = "apply/light"
    /\ out.emits[1]._id = "a"
    /\ out.emits[1].bri = 0
    /\ ~out.emits[1].on
    /\ device_id_map["a"].bri = 0

\* C19: the reconciliation applies the snapshot it was given without any check
\* of age: a pass that completes leaves every light of the fetched snapshot
\* with the snapshot's on and bri, whatever was written to the record between
\* the fetch and the reconciliation; so a push applied in that window is
\* overwritten by the older snapshot.
C19_SnapshotOverwritesPush ==
    [][\A t \in {MainThread, PollerThread} :
         (pc[t] = "reconcile" /\ pc'[t] \notin {"reconcile", "raised"})
         => \A k \in 1..Len(found_lights) :
              LET light == found_lights[k]
              IN /\ light.deviceId \in DOMAIN device_id_map'
                 /\ device_id_map'[light.deviceId].on = light.on
                 /\ device_id_map'[light.deviceId].bri = light.bri]_vars

\* The race's window: the Poller holds a fetched snapshot it has not yet
\* reconciled, and a push for a light of that snapshot has just been applied,
\* leaving the record in a state other than the snapshot's.
C19_Witness ==
    /\ pc[PollerThread] = "reconcile"
    /\ \E k \in 1..Len(found_lights) :
         LET light == found_lights[k]
         IN /\ light.deviceId \in DOMAIN device_id_map
            /\ out.ha_updates = <<light.deviceId>>
            /\ \/ device_id_map[light.deviceId].on # light.on
               \/ device_id_map[light.deviceId].bri # light.bri
    /\ \A k \in 1..Len(found_lights) : found_lights[k].deviceId \in DOMAIN device_id_map

\* C20: close_socket completes without an exception wherever it is invoked:
\* by the shutdown hook, the inert controller's included, and by reconnect,
\* before the constructor has created the timer included.
C20_CloseSocketCompletes ==
    [][\A t \in {MainThread} \cup Sockets :
         pc[t] \in {"close_socket", "stop_timer", "join_timer", "disconnect", "join_socket"}
         => pc'[t] # "raised"]_vars

====
